---- MODULE Spec2Model ----
(***************************************************************************)
(* WhatsApp auto-forwarder: the session lifecycle controller, the group    *)
(* directory refresh, the administrative refresh endpoint and the message  *)
(* relay pipeline of the server script.                                    *)
(*                                                                         *)
(* The messaging engine (whatsapp-web.js Client), the filesystem and the   *)
(* timer queue are the environment: the engine raises lifecycle events in  *)
(* any order, every awaited engine call may resolve or throw, and a        *)
(* scheduled timer fires at any later point.  Every await of a handler is  *)
(* a suspension point, so a handler is one action per stretch of code      *)
(* between two awaits.                                                     *)
(***************************************************************************)
EXTENDS Integers, Sequences, FiniteSets, Bags, TLC

(***************************************************************************)
(* Bounds of the environment.                                              *)
(***************************************************************************)
\* engine lifecycle events raised in one run of Spec
MaxEvents == 3
\* getChats() calls of the automatic loop that complete in one run of SpecScript
MaxFetches == 3
\* rule requests (POST and DELETE) in one run of SpecRules
MaxRuleOps == 3
\* manual refresh requests in one run of SpecRefresh
MaxRefreshes == 2
\* engine lifecycle events raised in one run of SpecRefresh
RefreshEvents == 2
\* getChats() calls of the automatic loops that complete in one run of SpecReconnect
ReconnectFetches == 2
\* getChats() calls that complete in one run of SpecLoop
LoopFetches == 20
\* messages that arrive in one run of SpecRelay
MaxMsgs == 1
\* messages that arrive in one run of SpecFiles
MaxWriters == 2
\* milliseconds that pass in one run of SpecRelay or SpecFiles
MaxClock == 1

VARIABLES
    currentStatus,   \* let currentStatus
    availableGroups, \* let availableGroups: sequence of group ids
    isReconnecting,  \* let isReconnecting
    clientInfo,      \* client.info is set (the engine sets it before 'ready')
    initializing,    \* initializeClient calls suspended at await client.initialize()
    repairing,       \* initializeClient calls suspended at await client.destroy() (auto-fix)
    cleanupTimers,   \* pending setTimeout(<session cleanup>, 1000)
    restartTimers,   \* pending setTimeout(initializeClient, 3000) of the auto-fix,
                     \* each with what its cleanup did
    retryTimers,     \* pending setTimeout(initializeClient, 5000)
    reinitTimers,    \* pending setTimeout(initializeClient, 3000) of 'disconnected'
    destroying,      \* 'disconnected' handlers suspended at await client.destroy()
    qrRendering,     \* 'qr' handlers waiting for the qrcode.toDataURL callback
    authDir,         \* .wwebjs_auth exists
    cacheDir,        \* .wwebjs_cache exists
    loops,           \* one record per 'ready' handler run: its fetchGroups closure
    refreshing,      \* refresh requests suspended at await client.getChats()
    lastInit,        \* history: what started the latest initializeClient call, and
                     \* whether a client.initialize() has thrown since
    lastRefresh,     \* history: the latest refresh request and its response
    evLeft,          \* environment: lifecycle events still to come
    fetchLeft,       \* environment: loop fetches still to complete
    refreshLeft,     \* environment: refresh requests still to come
    script,          \* environment: the scripted events still to come (SpecScript)
    config,          \* config.rules: the routing table
    handlers,        \* one record per run of the 'message_create' handler
    files,           \* the temp_<timestamp>.<ext> files present in public/
    cleanups,        \* pending setTimeout(<unlink filePath>, 30000), a bag of paths
    now,             \* Date.now()
    inbox,           \* environment: the messages that may arrive
    msgLeft,         \* environment: messages still to come
    configFile,      \* the rules stored in config.json
    lastPost,        \* history: the latest POST /api/config/rules
    lastDelete,      \* history: the latest DELETE /api/config/rules/:index
    ruleLeft         \* environment: rule requests still to come

lifeVars == <<currentStatus, availableGroups, isReconnecting, clientInfo,
              initializing, repairing, cleanupTimers, restartTimers, retryTimers,
              reinitTimers, destroying, qrRendering, authDir, cacheDir, loops,
              refreshing, lastInit, lastRefresh, evLeft, fetchLeft, refreshLeft,
              script>>

apiVars == <<configFile, lastPost, lastDelete, ruleLeft>>

relayVars == <<config, handlers, files, cleanups, now, inbox, msgLeft, apiVars>>

vars == <<lifeVars, relayVars>>

(***************************************************************************)
(* Values.                                                                 *)
(***************************************************************************)
\* the status labels the handlers pass to updateStatus
StatusLabels == {"Initializing...", "Init Error", "Scan QR Code", "Connected",
                 "Authenticated", "Auth Failure", "Disconnected"}

\* e.message of a failed client.initialize(), as the phrases it is made of;
\* <<>> is an error with no message (e.message || '')
InitErrors == { <<>>,
                <<"Protocol error", "(Runtime.callFunctionOn)", "Target closed">>,
                <<"Execution context was destroyed">>,
                <<"page.evaluate", "Evaluation failed">>,
                <<"net::ERR_NAME_NOT_RESOLVED">> }

\* what client.getChats() resolves to: chats, some of them groups
Chat(id, isGroup) == [id |-> id, isGroup |-> isGroup]
ChatLists == { <<>>,
               <<Chat("u1", FALSE)>>,
               <<Chat("g1", TRUE)>>,
               <<Chat("u1", FALSE), Chat("g1", TRUE), Chat("g2", TRUE)>> }

\* the attempt budgets of fetchGroups
RecheckLimit == 5
RetryLimit == 20

(***************************************************************************)
(* Helpers of the lifecycle code.                                          *)
(***************************************************************************)
\* errorMsg.includes(phrase)
Includes(errorMsg, phrase) == \E i \in 1..Len(errorMsg) : errorMsg[i] = phrase

\* the condition of the AUTO-FIX branch of initializeClient's catch
IsSessionCorruption(errorMsg) ==
    \/ Includes(errorMsg, "Execution context was destroyed")
    \/ Includes(errorMsg, "Protocol error")
    \/ Includes(errorMsg, "Evaluation failed")

\* chats.filter(chat => chat.isGroup).map(chat => chat.id)
IsGroupChat(chat) == chat.isGroup
GroupsOf(chats) ==
    LET gs == SelectSeq(chats, IsGroupChat)
    IN  [i \in 1..Len(gs) |-> gs[i].id]

\* the try block of the cleanup timer: each rmSync is called only on an
\* existing directory and may throw (authFails, cacheFails); a throw skips
\* the rest of the block
SessionCleanup(auth, cache, authFails, cacheFails) ==
    LET authThrew  == auth /\ authFails
        cacheTried == ~authThrew
        cacheThrew == cacheTried /\ cache /\ cacheFails
    IN  [ authDir    |-> auth /\ authThrew,
          cacheDir   |-> cache /\ (~cacheTried \/ cacheThrew),
          authTried  |-> TRUE,
          cacheTried |-> cacheTried,
          failed     |-> authThrew \/ cacheThrew ]

\* a failed fetch retried whatever the count
RetryAfterErrorAlways(attempts) == TRUE

\* fetchGroups: whether another attempt is scheduled after this one
RecheckAfterFound(attempts) == attempts < RecheckLimit
RetryAfterEmpty(attempts) == attempts < RetryLimit
RetryAfterError(attempts) == attempts < RetryLimit

\* the guard of the refresh endpoint: if (client && client.info)
RefreshAllowed(info, status) == info

NoCleanup == [authTried |-> FALSE, cacheTried |-> FALSE, failed |-> FALSE]

\* what a run of the cleanup timer can have done
CleanupOutcomes == [authTried : {TRUE}, cacheTried : BOOLEAN, failed : BOOLEAN]

(***************************************************************************)
(* The environment's events: free and counted in Spec, scripted in         *)
(* SpecScript.                                                             *)
(***************************************************************************)
Arrives(ev) ==
    IF script = <<>>
    THEN evLeft > 0 /\ evLeft' = evLeft - 1 /\ script' = script
    ELSE Head(script) = ev /\ script' = Tail(script) /\ evLeft' = evLeft

(***************************************************************************)
(* initializeClient                                                        *)
(***************************************************************************)
\* updateStatus(status)
updateStatus(status) == currentStatus' = status

\* initializeClient up to await client.initialize()
initializeClient(cause, cleanup) ==
    /\ updateStatus("Initializing...")
    /\ initializing' = initializing + 1
    /\ lastInit' = [cause |-> cause, cleanup |-> cleanup, failedSince |-> FALSE]

\* await client.initialize() resolves
InitializeResolves ==
    /\ initializing > 0
    /\ initializing' = initializing - 1
    /\ \E a \in {authDir, TRUE}, c \in {cacheDir, TRUE} :
          authDir' = a /\ cacheDir' = c
    /\ UNCHANGED relayVars
    /\ UNCHANGED <<currentStatus, availableGroups, isReconnecting, clientInfo,
                   repairing, cleanupTimers, restartTimers, retryTimers,
                   reinitTimers, destroying, qrRendering, loops, refreshing,
                   lastInit, lastRefresh, evLeft, fetchLeft, refreshLeft, script>>

\* what the catch block does with e.message: the auto-fix (destroy, delete
\* the session directories, restart) or the retry in 5s
InitErrorPlan(errorMsg) ==
    IF IsSessionCorruption(errorMsg) THEN "repair" ELSE "retry"

\* await client.initialize() throws e: the catch block up to its next await
\* (auto-fix) or to its end (retry in 5s)
InitializeThrows ==
    /\ initializing > 0
    /\ initializing' = initializing - 1
    /\ updateStatus("Init Error")
    /\ \E e \in InitErrors :
          /\ repairing' = repairing + (IF InitErrorPlan(e) = "repair" THEN 1 ELSE 0)
          /\ retryTimers' = retryTimers + (IF InitErrorPlan(e) = "retry" THEN 1 ELSE 0)
    /\ lastInit' = [lastInit EXCEPT !.failedSince = TRUE]
    /\ UNCHANGED relayVars
    /\ UNCHANGED <<availableGroups, isReconnecting, clientInfo, cleanupTimers,
                   restartTimers, reinitTimers, destroying, qrRendering, authDir,
                   cacheDir, loops, refreshing, lastRefresh, evLeft,
                   fetchLeft, refreshLeft, script>>

\* try { await client.destroy(); } catch (err) { } then setTimeout(cleanup, 1000)
RepairDestroyDone ==
    /\ repairing > 0
    /\ repairing' = repairing - 1
    /\ cleanupTimers' = cleanupTimers + 1
    /\ UNCHANGED relayVars
    /\ UNCHANGED <<currentStatus, availableGroups, isReconnecting, clientInfo,
                   initializing, restartTimers, retryTimers, reinitTimers,
                   destroying, qrRendering, authDir, cacheDir, loops, refreshing,
                   lastInit, lastRefresh, evLeft, fetchLeft, refreshLeft, script>>

\* the 1s timer: delete the session directories, then setTimeout(initializeClient, 3000)
CleanupTimerFires ==
    /\ cleanupTimers > 0
    /\ cleanupTimers' = cleanupTimers - 1
    /\ \E authFails \in BOOLEAN, cacheFails \in BOOLEAN :
          LET r == SessionCleanup(authDir, cacheDir, authFails, cacheFails)
          IN  /\ authDir' = r.authDir
              /\ cacheDir' = r.cacheDir
              /\ LET o == [authTried |-> r.authTried, cacheTried |-> r.cacheTried,
                            failed |-> r.failed]
                 IN  restartTimers' = [restartTimers EXCEPT ![o] = @ + 1]
    /\ UNCHANGED relayVars
    /\ UNCHANGED <<currentStatus, availableGroups, isReconnecting, clientInfo,
                   initializing, repairing, retryTimers, reinitTimers, destroying,
                   qrRendering, loops, refreshing, lastInit, lastRefresh, evLeft,
                   fetchLeft, refreshLeft, script>>

\* the 3s timer of the auto-fix fires
RestartTimerFires ==
    /\ \E o \in CleanupOutcomes :
          /\ restartTimers[o] > 0
          /\ initializeClient("restart", o)
          /\ restartTimers' = [restartTimers EXCEPT ![o] = @ - 1]
    /\ UNCHANGED relayVars
    /\ UNCHANGED <<availableGroups, isReconnecting, clientInfo, repairing,
                   cleanupTimers, retryTimers, reinitTimers, destroying,
                   qrRendering, authDir, cacheDir, loops, refreshing, lastRefresh,
                   evLeft, fetchLeft, refreshLeft, script>>

\* the 5s retry timer fires
RetryTimerFires ==
    /\ retryTimers > 0
    /\ retryTimers' = retryTimers - 1
    /\ initializeClient("retry", NoCleanup)
    /\ UNCHANGED relayVars
    /\ UNCHANGED <<availableGroups, isReconnecting, clientInfo, repairing,
                   cleanupTimers, restartTimers, reinitTimers, destroying,
                   qrRendering, authDir, cacheDir, loops, refreshing, lastRefresh,
                   evLeft, fetchLeft, refreshLeft, script>>

\* the 3s timer of the 'disconnected' handler fires
ReinitTimerFires ==
    /\ reinitTimers > 0
    /\ reinitTimers' = reinitTimers - 1
    /\ initializeClient("reinit", NoCleanup)
    /\ UNCHANGED relayVars
    /\ UNCHANGED <<availableGroups, isReconnecting, clientInfo, repairing,
                   cleanupTimers, restartTimers, retryTimers, destroying,
                   qrRendering, authDir, cacheDir, loops, refreshing, lastRefresh,
                   evLeft, fetchLeft, refreshLeft, script>>

(***************************************************************************)
(* The engine's lifecycle events.                                          *)
(***************************************************************************)
\* client.on('qr'): qrcode.toDataURL is started, its callback comes later
Qr ==
    /\ Arrives("qr")
    /\ qrRendering' = qrRendering + 1
    /\ UNCHANGED relayVars
    /\ UNCHANGED <<currentStatus, availableGroups, isReconnecting, clientInfo,
                   initializing, repairing, cleanupTimers, restartTimers,
                   retryTimers, reinitTimers, destroying, authDir, cacheDir, loops,
                   refreshing, lastInit, lastRefresh, fetchLeft, refreshLeft>>

\* the toDataURL callback (err, url)
QrRendered ==
    /\ qrRendering > 0
    /\ qrRendering' = qrRendering - 1
    /\ \E err \in BOOLEAN :
          IF ~err THEN updateStatus("Scan QR Code") ELSE UNCHANGED currentStatus
    /\ UNCHANGED relayVars
    /\ UNCHANGED <<availableGroups, isReconnecting, clientInfo, initializing,
                   repairing, cleanupTimers, restartTimers, retryTimers,
                   reinitTimers, destroying, authDir, cacheDir, loops, refreshing,
                   lastInit, lastRefresh, evLeft, fetchLeft, refreshLeft, script>>

\* client.on('ready') up to the first await client.getChats() of fetchGroups
Ready ==
    /\ Arrives("ready")
    /\ updateStatus("Connected")
    /\ isReconnecting' = FALSE
    /\ clientInfo' = TRUE
    /\ loops' = Append(loops, [attempts |-> 1, calls |-> 1, phase |-> "fetching",
                               last |-> "none", rechecks |-> 0])
    /\ UNCHANGED relayVars
    /\ UNCHANGED <<availableGroups, initializing, repairing, cleanupTimers,
                   restartTimers, retryTimers, reinitTimers, destroying,
                   qrRendering, authDir, cacheDir, refreshing, lastInit,
                   lastRefresh, fetchLeft, refreshLeft>>

\* client.on('authenticated')
Authenticated ==
    /\ Arrives("authenticated")
    /\ updateStatus("Authenticated")
    /\ UNCHANGED relayVars
    /\ UNCHANGED <<availableGroups, isReconnecting, clientInfo, initializing,
                   repairing, cleanupTimers, restartTimers, retryTimers,
                   reinitTimers, destroying, qrRendering, authDir, cacheDir, loops,
                   refreshing, lastInit, lastRefresh, fetchLeft, refreshLeft>>

\* an 'auth_failure' handler that recovers like the 'disconnected' handler
AuthFailureRecovering ==
    /\ Arrives("auth_failure")
    /\ updateStatus("Auth Failure")
    /\ destroying' = destroying + 1
    /\ UNCHANGED relayVars
    /\ UNCHANGED <<availableGroups, isReconnecting, clientInfo, initializing,
                   repairing, cleanupTimers, restartTimers, retryTimers,
                   reinitTimers, qrRendering, authDir, cacheDir, loops,
                   refreshing, lastInit, lastRefresh, fetchLeft, refreshLeft>>

\* client.on('auth_failure')
AuthFailure ==
    /\ Arrives("auth_failure")
    /\ updateStatus("Auth Failure")
    /\ UNCHANGED relayVars
    /\ UNCHANGED <<availableGroups, isReconnecting, clientInfo, initializing,
                   repairing, cleanupTimers, restartTimers, retryTimers,
                   reinitTimers, destroying, qrRendering, authDir, cacheDir, loops,
                   refreshing, lastInit, lastRefresh, fetchLeft, refreshLeft>>

\* client.on('disconnected') up to await client.destroy(), or to its end
\* when a reconnect is already flagged
Disconnected ==
    /\ Arrives("disconnected")
    /\ updateStatus("Disconnected")
    /\ IF ~isReconnecting
       THEN isReconnecting' = TRUE /\ destroying' = destroying + 1
       ELSE UNCHANGED <<isReconnecting, destroying>>
    /\ UNCHANGED relayVars
    /\ UNCHANGED <<availableGroups, clientInfo, initializing, repairing,
                   cleanupTimers, restartTimers, retryTimers, reinitTimers,
                   qrRendering, authDir, cacheDir, loops, refreshing, lastInit,
                   lastRefresh, fetchLeft, refreshLeft>>

\* await client.destroy() of the 'disconnected' handler returns or throws:
\* setTimeout(initializeClient, 3000)
DisconnectDestroyDone ==
    /\ destroying > 0
    /\ destroying' = destroying - 1
    /\ reinitTimers' = reinitTimers + 1
    /\ UNCHANGED relayVars
    /\ UNCHANGED <<currentStatus, availableGroups, isReconnecting, clientInfo,
                   initializing, repairing, cleanupTimers, restartTimers,
                   retryTimers, qrRendering, authDir, cacheDir, loops, refreshing,
                   lastInit, lastRefresh, evLeft, fetchLeft, refreshLeft, script>>

(***************************************************************************)
(* fetchGroups, the automatic directory refresh of one 'ready' handler.    *)
(***************************************************************************)
\* await client.getChats() of loop l resolves or throws: the rest of fetchGroups
FetchComplete(l) ==
    /\ loops[l].phase = "fetching"
    /\ fetchLeft > 0
    /\ fetchLeft' = fetchLeft - 1
    /\ \/ \E chats \in ChatLists :
             LET groups == GroupsOf(chats)
                 a == loops[l].attempts
             IN  IF Len(groups) > 0
                 THEN /\ availableGroups' = groups
                      /\ loops' = [loops EXCEPT ![l] =
                            [attempts |-> a, calls |-> loops[l].calls,
                             phase |-> IF RecheckAfterFound(a) THEN "waiting" ELSE "done",
                             last |-> "found",
                             rechecks |-> IF RecheckAfterFound(a)
                                          THEN loops[l].rechecks + 1
                                          ELSE loops[l].rechecks]]
                 ELSE /\ availableGroups' = availableGroups
                      /\ loops' = [loops EXCEPT ![l] =
                            [attempts |-> a, calls |-> loops[l].calls,
                             phase |-> IF RetryAfterEmpty(a) THEN "waiting" ELSE "done",
                             last |-> "empty",
                             rechecks |-> loops[l].rechecks]]
       \/ /\ availableGroups' = availableGroups
          /\ loops' = [loops EXCEPT ![l] =
                [attempts |-> loops[l].attempts, calls |-> loops[l].calls,
                 phase |-> IF RetryAfterError(loops[l].attempts) THEN "waiting" ELSE "done",
                 last |-> "error",
                 rechecks |-> loops[l].rechecks]]
    /\ UNCHANGED relayVars
    /\ UNCHANGED <<currentStatus, isReconnecting, clientInfo, initializing,
                   repairing, cleanupTimers, restartTimers, retryTimers,
                   reinitTimers, destroying, qrRendering, authDir, cacheDir,
                   refreshing, lastInit, lastRefresh, evLeft, refreshLeft, script>>

\* the 5s timer of loop l fires: fetchGroups up to await client.getChats()
FetchTimerFires(l) ==
    /\ loops[l].phase = "waiting"
    /\ loops' = [loops EXCEPT ![l].attempts = @ + 1, ![l].calls = @ + 1,
                              ![l].phase = "fetching"]
    /\ UNCHANGED relayVars
    /\ UNCHANGED <<currentStatus, availableGroups, isReconnecting, clientInfo,
                   initializing, repairing, cleanupTimers, restartTimers,
                   retryTimers, reinitTimers, destroying, qrRendering, authDir,
                   cacheDir, refreshing, lastInit, lastRefresh, evLeft, fetchLeft,
                   refreshLeft, script>>

(***************************************************************************)
(* POST /api/groups/refresh                                                *)
(***************************************************************************)
\* the handler up to await client.getChats(), or to its 'Client not ready' answer
RefreshRequest ==
    /\ refreshLeft > 0
    /\ refreshLeft' = refreshLeft - 1
    /\ IF RefreshAllowed(clientInfo, currentStatus)
       THEN /\ refreshing' = refreshing + 1
            /\ lastRefresh' = [at |-> currentStatus, fetched |-> TRUE,
                               response |-> "pending"]
       ELSE /\ refreshing' = refreshing
            /\ lastRefresh' = [at |-> currentStatus, fetched |-> FALSE,
                               response |-> "not ready"]
    /\ UNCHANGED relayVars
    /\ UNCHANGED <<currentStatus, availableGroups, isReconnecting, clientInfo,
                   initializing, repairing, cleanupTimers, restartTimers,
                   retryTimers, reinitTimers, destroying, qrRendering, authDir,
                   cacheDir, loops, lastInit, evLeft, fetchLeft, script>>

\* await client.getChats() of a refresh resolves (publish) or throws (500)
RefreshComplete ==
    /\ refreshing > 0
    /\ refreshing' = refreshing - 1
    /\ \/ \E chats \in ChatLists :
             /\ availableGroups' = GroupsOf(chats)
             /\ lastRefresh' = [lastRefresh EXCEPT !.response = "success"]
       \/ /\ availableGroups' = availableGroups
          /\ lastRefresh' = [lastRefresh EXCEPT !.response = "error"]
    /\ UNCHANGED relayVars
    /\ UNCHANGED <<currentStatus, isReconnecting, clientInfo, initializing,
                   repairing, cleanupTimers, restartTimers, retryTimers,
                   reinitTimers, destroying, qrRendering, authDir, cacheDir, loops,
                   lastInit, evLeft, fetchLeft, refreshLeft, script>>

(***************************************************************************)
(* Values of the relay pipeline.                                           *)
(***************************************************************************)
\* a string the code splits is the sequence of its separators ("/", ";")
\* and of the separator-free pieces between them
MimePng     == <<"image", "/", "png">>
MimeMp4     == <<"video", "/", "mp4">>
MimeMp4Cod  == <<"video", "/", "mp4", ";", " codecs=avc1">>
MimePdf     == <<"application", "/", "pdf">>
MimeOctet   == <<"application", "/", "octet-stream">>
MimeNoSub   == <<"video", "/">>
MimeNoSlash == <<"imagefile">>
MimeInherited == <<"toString">>
NoMime      == <<>>

\* msg.type values
MsgTypes == {"image", "video", "gif", "document", "chat", "ptt"}

\* the groups and the one private chat
GroupA == "A"
GroupB == "B"
GroupC == "C"
PrivateChat == "u1"

Rule(source, targets) == [source |-> source, targets |-> targets]

\* base64 text: "Q" is a character of the alphabet, "!" is not, "=" is padding
PayloadEmpty   == <<>>
PayloadOneChar == <<"Q">>
PayloadJunk    == <<"!", "!">>
PayloadPadded  == <<"=", "Q", "Q", "Q">>
PayloadBytes   == <<"Q", "Q", "!", "Q", "Q">>

\* what msg.downloadMedia() resolves to; NoMedia is undefined
NoMedia == [present |-> FALSE, data |-> <<>>, mimetype |-> <<>>]
Media(data, mimetype) == [present |-> TRUE, data |-> data, mimetype |-> mimetype]

NoFile == [ts |-> -1, ext |-> <<>>]

\* the messages of the environment
Messages == [chat : {GroupA, GroupB, PrivateChat}, type : MsgTypes,
             mime : {NoMime, MimePng, MimeMp4, MimePdf, MimeNoSlash},
             hasMedia : {TRUE}]

\* the messages of SpecRelay
RelayMessages ==
    { [chat |-> GroupA, type |-> "image", mime |-> MimePng, hasMedia |-> TRUE],
      [chat |-> GroupA, type |-> "gif", mime |-> NoMime, hasMedia |-> FALSE],
      [chat |-> GroupA, type |-> "document", mime |-> MimePdf, hasMedia |-> TRUE],
      [chat |-> GroupB, type |-> "video", mime |-> MimeMp4, hasMedia |-> TRUE],
      [chat |-> PrivateChat, type |-> "image", mime |-> MimePng, hasMedia |-> TRUE] }

\* the results of msg.downloadMedia() of the environment
Downloads ==
    { NoMedia,
      Media(PayloadEmpty, MimeMp4),
      Media(PayloadOneChar, MimeMp4),
      Media(PayloadPadded, MimeInherited),
      Media(PayloadBytes, MimeMp4Cod),
      Media(PayloadBytes, MimeNoSlash) }

\* the routing tables config.json may hold at start
RoutingTables ==
    { <<>>,
      <<Rule(GroupA, <<GroupB, GroupC>>)>>,
      <<Rule(GroupA, <<GroupA, GroupB>>)>>,
      <<Rule(GroupA, <<GroupB>>), Rule(GroupB, <<GroupC>>), Rule(GroupA, <<GroupB>>)>> }

(***************************************************************************)
(* Helpers of the message handler.                                         *)
(***************************************************************************)
\* s.startsWith(prefix)
StartsWith(s, prefix) ==
    /\ Len(s) >= Len(prefix)
    /\ SubSeq(s, 1, Len(prefix)) = prefix

\* the index of the first sep in s from position i on, Len(s) + 1 if none
RECURSIVE IndexOf(_, _, _)
IndexOf(s, sep, i) ==
    IF i > Len(s) THEN Len(s) + 1
    ELSE IF s[i] = sep THEN i
    ELSE IndexOf(s, sep, i + 1)

\* s.split(sep)[0]
SplitFirst(s, sep) == SubSeq(s, 1, IndexOf(s, sep, 1) - 1)

\* s.split(sep)[1] is undefined
NoSecondPart(s, sep) == IndexOf(s, sep, 1) > Len(s)

\* s.split(sep)[1], when defined
SplitSecond(s, sep) ==
    LET i == IndexOf(s, sep, 1)
    IN  SubSeq(s, i + 1, IndexOf(s, sep, i + 1) - 1)

\* the properties every object literal inherits from Object.prototype, and
\* the text each gives in a template string
InheritedKeys == {"constructor", "toString", "toLocaleString", "valueOf",
                  "hasOwnProperty", "isPrototypeOf", "propertyIsEnumerable",
                  "__proto__", "__defineGetter__", "__defineSetter__",
                  "__lookupGetter__", "__lookupSetter__"}
InheritedText(name) ==
    CASE name = "constructor"          -> "function Object() { [native code] }"
      [] name = "toString"             -> "function toString() { [native code] }"
      [] name = "toLocaleString"       -> "function toLocaleString() { [native code] }"
      [] name = "valueOf"              -> "function valueOf() { [native code] }"
      [] name = "hasOwnProperty"       -> "function hasOwnProperty() { [native code] }"
      [] name = "isPrototypeOf"        -> "function isPrototypeOf() { [native code] }"
      [] name = "propertyIsEnumerable" -> "function propertyIsEnumerable() { [native code] }"
      [] name = "__proto__"            -> "[object Object]"
      [] name = "__defineGetter__"     -> "function __defineGetter__() { [native code] }"
      [] name = "__defineSetter__"     -> "function __defineSetter__() { [native code] }"
      [] name = "__lookupGetter__"     -> "function __lookupGetter__() { [native code] }"
      [] name = "__lookupSetter__"     -> "function __lookupSetter__() { [native code] }"

\* const mimeMap = { ... }; mimeMap[key] is a property read, so a key that
\* names an inherited property gives that property; <<>> where the key is
\* missing
mimeMap(key) ==
    CASE key = <<"video", "/", "mp4">>        -> <<"mp4">>
      [] key = <<"video", "/", "3gpp">>       -> <<"3gp">>
      [] key = <<"video", "/", "quicktime">>  -> <<"mov">>
      [] key = <<"video", "/", "x-matroska">> -> <<"mkv">>
      [] key = <<"image", "/", "jpeg">>       -> <<"jpg">>
      [] key = <<"image", "/", "png">>        -> <<"png">>
      [] key = <<"image", "/", "webp">>       -> <<"webp">>
      [] key = <<"image", "/", "gif">>        -> <<"gif">>
      [] key = <<"audio", "/", "ogg">>        -> <<"ogg">>
      [] key = <<"audio", "/", "mp4">>        -> <<"m4a">>
      [] key = <<"audio", "/", "mpeg">>       -> <<"mp3">>
      [] Len(key) = 1 /\ key[1] \in InheritedKeys -> <<InheritedText(key[1])>>
      [] OTHER                                -> <<>>

\* const mime = media.mimetype || 'application/octet-stream'
MediaMime(mimetype) == IF mimetype = <<>> THEN MimeOctet ELSE mimetype

\* the ext expression throws a TypeError: the key is not in mimeMap and
\* mime.split('/')[1] is undefined
ExtThrows(mime) ==
    /\ mimeMap(SplitFirst(mime, ";")) = <<>>
    /\ NoSecondPart(mime, "/")

\* let ext = mimeMap[mime.split(';')[0]] || mime.split('/')[1].split(';')[0] || 'bin'
Ext(mime) ==
    IF mimeMap(SplitFirst(mime, ";")) # <<>> THEN mimeMap(SplitFirst(mime, ";"))
    ELSE IF SplitFirst(SplitSecond(mime, "/"), ";") # <<>>
         THEN SplitFirst(SplitSecond(mime, "/"), ";")
    ELSE <<"bin">>

\* the bytes fs.writeFileSync(filePath, data, 'base64') writes: characters
\* outside the alphabet are skipped, decoding stops at the first "=", and
\* every 4 characters give 3 bytes
RECURSIVE Base64Chars(_, _)
Base64Chars(data, i) ==
    IF i > Len(data) \/ data[i] = "=" THEN 0
    ELSE (IF data[i] = "Q" THEN 1 ELSE 0) + Base64Chars(data, i + 1)

DecodedSize(data) == (Base64Chars(data, 1) * 6) \div 8

\* the check made on the text instead of on the file
StatSizeOfText(data) == Len(data) = 0

\* if (stats.size === 0) throw new Error("File empty after write")
StatSizeIsZero(data) == DecodedSize(data) = 0

\* every document promoted
IsMediaAnyDocument(type, mime) == type \in {"image", "video", "gif", "document"}

\* let isMedia = ['image', 'video', 'gif'].includes(type), promoted for a
\* document whose mime starts with image/ or video/
IsMedia(type, mime) ==
    \/ type \in {"image", "video", "gif"}
    \/ /\ type = "document"
       /\ \/ StartsWith(mime, <<"image", "/">>)
          \/ StartsWith(mime, <<"video", "/">>)

\* config.rules.filter(r => r.source === chat.id._serialized)
ValidRules(rules, chat) ==
    LET keep == {i \in 1..Len(rules) : rules[i].source = chat}
        RECURSIVE Pick(_)
        Pick(i) == IF i > Len(rules) THEN <<>>
                   ELSE IF i \in keep THEN <<rules[i]>> \o Pick(i + 1)
                   ELSE Pick(i + 1)
    IN  Pick(1)

\* no target skipped
SkipsNoTarget(targetId, chat) == FALSE

\* if (targetId === chat.id._serialized) continue
SkipsTarget(targetId, chat) == targetId = chat

\* the skip branch: what it sends to the event sink, the type named in
\* `Skipped ${type} (Not an image/video)`; for type 'chat' the io.emit is
\* commented out and nothing is sent
NoNotice == "<none>"
SkipNotice(type) == IF type = "chat" THEN NoNotice ELSE type

\* the positions <<rule, target>> the two for loops still visit after pos,
\* in loop order, without the targets they skip
Later(pos, q) == q[1] > pos[1] \/ (q[1] = pos[1] /\ q[2] > pos[2])
Remaining(rules, chat, pos) ==
    {q \in UNION {{<<i, j>> : j \in 1..Len(rules[i].targets)} : i \in 1..Len(rules)} :
        /\ Later(pos, q)
        /\ ~SkipsTarget(rules[q[1]].targets[q[2]], chat)}

NoPos == <<0, 0>>
NextPos(rules, chat, pos) ==
    LET rem == Remaining(rules, chat, pos)
    IN  IF rem = {} THEN NoPos
        ELSE CHOOSE q \in rem : \A o \in rem : o = q \/ Later(q, o)

(***************************************************************************)
(* client.on('message_create')                                             *)
(***************************************************************************)
\* the handler's locals at its first await, msg.getChat()
NewHandler(m) ==
    [ chat |-> m.chat, type |-> m.type, mime |-> m.mime, hasMedia |-> m.hasMedia,
      pc |-> "getChat", outcome |-> "pending", isMedia |-> FALSE,
      rules |-> <<>>, pos |-> NoPos, native |-> "none", file |-> NoFile,
      cleanup |-> FALSE, got |-> "none", sendCalled |-> FALSE,
      notice |-> NoNotice, log |-> <<>> ]

\* the body of the target loop up to its first await: stage 1 when
\* msg.hasMedia, stage 2 otherwise; past the last target the handler ends
Begin(h, pos) ==
    IF pos = NoPos
    THEN [h EXCEPT !.pc = "done", !.pos = NoPos, !.native = "none",
                   !.file = NoFile, !.cleanup = FALSE, !.got = "none",
                   !.sendCalled = FALSE]
    ELSE [h EXCEPT !.pc = IF h.hasMedia THEN "download" ELSE "forward",
                   !.pos = pos, !.native = "none", !.file = NoFile,
                   !.cleanup = FALSE, !.got = "none",
                   !.sendCalled = FALSE]

\* targetId of the iteration handler h is in
TargetOf(h) == h.rules[h.pos[1]].targets[h.pos[2]]

\* the end of one target's iteration, forward being what stage 2 did; in
\* AdvanceAborting a throw of msg.forward() ends the loops
AdvanceAborting(h, forward) ==
    LET logged == [h EXCEPT !.log = Append(@, [target |-> TargetOf(h),
                                       native |-> h.native,
                                       forward |-> forward, file |-> h.file,
                                       cleanup |-> h.cleanup, got |-> h.got,
                                       sendCalled |-> h.sendCalled])]
    IN  IF forward = "threw"
        THEN Begin(logged, NoPos)
        ELSE Begin(logged, NextPos(h.rules, h.chat, h.pos))

Advance(h, forward) ==
    Begin([h EXCEPT !.log = Append(@, [target |-> TargetOf(h), native |-> h.native,
                                       forward |-> forward, file |-> h.file,
                                       cleanup |-> h.cleanup, got |-> h.got,
                                       sendCalled |-> h.sendCalled])],
          NextPos(h.rules, h.chat, h.pos))

\* stage 2 run after every stage 1
NeedsForwardAlways(native) == TRUE

\* whether stage 2 runs: if (!sentAsMedia)
NeedsForward(native) == native # "sent"

\* history: what msg.downloadMedia() returned in this iteration, "nothing"
\* for a payload that is absent, empty or of zero bytes once decoded
NothingToSend(media) ==
    \/ ~media.present
    \/ media.data = <<>>
    \/ DecodedSize(media.data) = 0

Got(h, media) ==
    [h EXCEPT !.got = IF NothingToSend(media) THEN "nothing" ELSE "payload"]

\* if (media && media.data)
HasData(media) == media.present /\ media.data # <<>>

\* what the filesystem does to stage 1 between the download and the send:
\* nothing, or a throw of mkdirSync or writeFileSync before the file exists
\* ("write"), of statSync ("stat"), or of MessageMedia.fromFilePath ("read");
\* a writeFileSync that throws after it created the file leaves what "stat"
\* leaves
FsFaults == {"none", "write", "stat", "read"}

\* stage 1 of handler h is over without a send
FallThrough(h, native) == [h EXCEPT !.native = native, !.pc = "forward"]

\* a message arrives: the handler runs up to await msg.getChat()
MessageCreate ==
    /\ msgLeft > 0
    /\ msgLeft' = msgLeft - 1
    /\ \E m \in inbox : handlers' = Append(handlers, NewHandler(m))
    /\ UNCHANGED <<config, files, cleanups, now, inbox>>
    /\ UNCHANGED <<lifeVars, apiVars>>

\* await msg.getChat() returns or throws: group check, rule match,
\* classification, and the loops up to the first await of the first target
GetChatDone(i) ==
    /\ handlers[i].pc = "getChat"
    /\ LET h == handlers[i]
           validRules == ValidRules(config, h.chat)
       IN  \/ handlers' = [handlers EXCEPT ![i] =
                              [h EXCEPT !.pc = "done", !.outcome = "failed"]]
           \/ handlers' = [handlers EXCEPT ![i] =
                 IF h.chat = PrivateChat
                 THEN [h EXCEPT !.pc = "done", !.outcome = "not group"]
                 ELSE IF Len(validRules) = 0
                 THEN [h EXCEPT !.pc = "done", !.outcome = "no rule"]
                 ELSE IF ~IsMedia(h.type, h.mime)
                 THEN [h EXCEPT !.pc = "done", !.outcome = "skipped",
                                !.rules = validRules,
                                !.notice = SkipNotice(h.type)]
                 ELSE Begin([h EXCEPT !.outcome = "relayed", !.isMedia = TRUE,
                                      !.rules = validRules],
                            NextPos(validRules, h.chat, NoPos))]
    /\ UNCHANGED <<config, files, cleanups, now, inbox, msgLeft>>
    /\ UNCHANGED <<lifeVars, apiVars>>

\* await msg.downloadMedia() returns or throws: stage 1 up to
\* await client.sendMessage(), or out of stage 1 (no data, or a throw caught
\* at line 318: of the ext expression, of the filesystem calls, or the
\* "File empty after write" error)
DownloadDone(i) ==
    /\ handlers[i].pc = "download"
    /\ LET h == handlers[i]
       IN  \/ /\ handlers' = [handlers EXCEPT ![i] =
                                 FallThrough([h EXCEPT !.got = "threw"], "threw")]
              /\ files' = files
           \/ \E media \in Downloads :
                 IF HasData(media)
                 THEN LET mime == MediaMime(media.mimetype)
                          filePath == [ts |-> now, ext |-> Ext(mime)]
                      IN  IF ExtThrows(mime)
                          THEN /\ handlers' = [handlers EXCEPT ![i] =
                                     FallThrough(Got(h, media), "threw")]
                               /\ files' = files
                          ELSE \E fault \in FsFaults :
                                 IF fault = "write"
                                 THEN /\ files' = files
                                      /\ handlers' = [handlers EXCEPT ![i] =
                                            FallThrough(Got(h, media), "threw")]
                                 ELSE /\ files' = files \cup {filePath}
                                      /\ handlers' = [handlers EXCEPT ![i] =
                                            IF fault = "stat"
                                            THEN [FallThrough(Got(h, media), "threw")
                                                     EXCEPT !.file = filePath]
                                            ELSE IF StatSizeIsZero(media.data)
                                            THEN [FallThrough(Got(h, media), "empty")
                                                     EXCEPT !.file = filePath]
                                            ELSE IF fault = "read"
                                            THEN [FallThrough(Got(h, media), "threw")
                                                     EXCEPT !.file = filePath]
                                            ELSE [Got(h, media) EXCEPT
                                                     !.file = filePath, !.pc = "send",
                                                     !.sendCalled = TRUE]]
                 ELSE /\ handlers' = [handlers EXCEPT ![i] =
                                         FallThrough(Got(h, media), "nodata")]
                      /\ files' = files
    /\ UNCHANGED <<config, cleanups, now, inbox, msgLeft>>
    /\ UNCHANGED <<lifeVars, apiVars>>

\* await client.sendMessage() returns (the cleanup timer is set, the
\* iteration ends) or throws (stage 2 follows)
SendDone(i) ==
    /\ handlers[i].pc = "send"
    /\ LET h == handlers[i]
       IN  \/ /\ cleanups' = cleanups (+) SetToBag({h.file})
              /\ handlers' = [handlers EXCEPT ![i] =
                    LET sent == [h EXCEPT !.native = "sent", !.cleanup = TRUE]
                    IN  IF NeedsForward(sent.native)
                        THEN [sent EXCEPT !.pc = "forward"]
                        ELSE Advance(sent, "none")]
           \/ /\ cleanups' = cleanups
              /\ handlers' = [handlers EXCEPT ![i] = FallThrough(h, "threw")]
    /\ UNCHANGED <<config, files, now, inbox, msgLeft>>
    /\ UNCHANGED <<lifeVars, apiVars>>

\* await msg.forward() returns or throws (caught by the iteration's try)
ForwardDone(i) ==
    /\ handlers[i].pc = "forward"
    /\ \E ok \in BOOLEAN :
          handlers' = [handlers EXCEPT ![i] =
                          Advance(handlers[i], IF ok THEN "ok" ELSE "threw")]
    /\ UNCHANGED <<config, files, cleanups, now, inbox, msgLeft>>
    /\ UNCHANGED <<lifeVars, apiVars>>

\* a 30s cleanup timer fires: unlink the file if it exists, errors swallowed
CleanupFires ==
    /\ \E filePath \in BagToSet(cleanups) :
          /\ cleanups' = cleanups (-) SetToBag({filePath})
          /\ \E unlinkFails \in BOOLEAN :
                files' = IF unlinkFails THEN files ELSE files \ {filePath}
    /\ UNCHANGED <<config, handlers, now, inbox, msgLeft>>
    /\ UNCHANGED <<lifeVars, apiVars>>

\* a millisecond passes
Tick ==
    /\ now < MaxClock
    /\ now' = now + 1
    /\ UNCHANGED <<config, handlers, files, cleanups, inbox, msgLeft>>
    /\ UNCHANGED <<lifeVars, apiVars>>

(***************************************************************************)
(* The rule endpoints: POST /api/config/rules, DELETE /api/config/rules/:i *)
(***************************************************************************)
\* a string is the sequence of its characters
DigitChars == <<"0", "1", "2", "3", "4", "5", "6", "7", "8", "9",
                "a", "b", "c", "d", "e", "f">>
UpperDigitChars == <<"0", "1", "2", "3", "4", "5", "6", "7", "8", "9",
                     "A", "B", "C", "D", "E", "F">>
\* a digit of parseInt in radix: the letters count in either case
IsDigit(c, radix) ==
    \E d \in 1..radix : DigitChars[d] = c \/ UpperDigitChars[d] = c
DigitValue(c) ==
    (CHOOSE d \in 1..16 : DigitChars[d] = c \/ UpperDigitChars[d] = c) - 1

\* a character outside printable ASCII is written by its code point, as one
\* element "U+hhhh" of the sequence (tab, line feed, form feed, carriage
\* return and space are written "\t", "\n", "\f", "\r" and " ")
\* the characters parseInt skips at the start (StrWhiteSpaceChar): the
\* WhiteSpace characters tab, vertical tab, form feed, space, no-break space,
\* byte order mark and the space separators (Zs), and the LineTerminator
\* characters line feed, carriage return, U+2028 and U+2029
SpaceSeparators ==
    {"U+1680", "U+2000", "U+2001", "U+2002", "U+2003", "U+2004", "U+2005",
     "U+2006", "U+2007", "U+2008", "U+2009", "U+200A", "U+202F", "U+205F",
     "U+3000"}
LineTerminators == {"\n", "\r", "U+2028", "U+2029"}
WhiteSpaceChars ==
    {"\t", "U+000B", "\f", " ", "U+00A0", "U+FEFF"}
        \cup SpaceSeparators \cup LineTerminators

\* the first index of s from i on that holds no white space
RECURSIVE SkipSpaces(_, _)
SkipSpaces(s, i) ==
    IF i <= Len(s) /\ s[i] \in WhiteSpaceChars THEN SkipSpaces(s, i + 1) ELSE i

\* the digits of s from i on, read in radix up to the first other character
RECURSIVE ReadDigits(_, _, _, _, _)
ReadDigits(s, i, radix, value, count) ==
    IF i <= Len(s) /\ IsDigit(s[i], radix)
    THEN ReadDigits(s, i + 1, radix, value * radix + DigitValue(s[i]), count + 1)
    ELSE [value |-> value, count |-> count]

\* parseInt(s): leading white space, a sign, an optional 0x or 0X prefix, then
\* digits up to the first other character; NaN when there is no digit
ParseInt(s) ==
    LET start  == SkipSpaces(s, 1)
        signed == start <= Len(s) /\ s[start] \in {"-", "+"}
        neg    == signed /\ s[start] = "-"
        first  == IF signed THEN start + 1 ELSE start
        hex    == first + 1 <= Len(s) /\ s[first] = "0"
                      /\ s[first + 1] \in {"x", "X"}
        read   == IF hex THEN ReadDigits(s, first + 2, 16, 0, 0)
                  ELSE ReadDigits(s, first, 10, 0, 0)
    IN  [nan |-> read.count = 0,
         value |-> IF neg THEN 0 - read.value ELSE read.value]

\* String(n) of an index n >= 0
RECURSIVE IndexString(_)
IndexString(n) ==
    IF n < 10 THEN <<DigitChars[n + 1]>>
    ELSE IndexString(n \div 10) \o <<DigitChars[(n % 10) + 1]>>

\* index >= 0 && index < config.rules.length; false for NaN
ValidIndex(index, length) ==
    ~index.nan /\ index.value >= 0 /\ index.value < length

\* the index counted from one
SpliceOneBased(rules, index) ==
    [k \in 1..(Len(rules) - 1) |-> IF k < index THEN rules[k] ELSE rules[k + 1]]

\* config.rules.splice(index, 1), index counted from zero
Splice(rules, index) ==
    [k \in 1..(Len(rules) - 1) |-> IF k <= index THEN rules[k] ELSE rules[k + 1]]

\* the bodies of the POST requests and the :index of the DELETE requests
NewRules == { Rule(GroupA, <<GroupB>>), Rule(GroupB, <<GroupA, GroupC>>) }
IndexParams == { <<"0">>, <<"1">>, <<"0", "2">>, <<"-", "1">>, <<"1", "x">>,
                 <<"x">>, <<" ", "1">>, <<"1", ".", "5">>, <<"1", "0">>,
                 <<"0", "x", "1">>, <<"0", "X", "1">>, <<"0", "x", "1", "F">>,
                 <<"\t", "1">>, <<"U+2003", "1">>, <<"U+00A0", "\n", "1">>,
                 <<"U+00E9", "1">>, <<"U+200B", "1">>, <<>> }

NoPost == [before |-> <<>>, index |-> -1, fresh |-> FALSE]
NoDelete == [param |-> <<>>, index |-> -1, done |-> FALSE]

\* no rule request is made
ApiIdle ==
    /\ configFile = config
    /\ lastPost = NoPost
    /\ lastDelete = NoDelete
    /\ ruleLeft = 0

\* POST /api/config/rules: push the body, save the file (which may throw,
\* after the push)
PostRule ==
    /\ ruleLeft > 0
    /\ ruleLeft' = ruleLeft - 1
    /\ \E newRule \in NewRules :
          /\ config' = Append(config, newRule)
          /\ lastPost' = [before |-> config, index |-> Len(config), fresh |-> TRUE]
    /\ \E writeFails \in BOOLEAN :
          configFile' = IF writeFails THEN configFile ELSE config'
    /\ UNCHANGED <<handlers, files, cleanups, now, inbox, msgLeft, lastDelete>>
    /\ UNCHANGED lifeVars

\* DELETE /api/config/rules/:index: splice and save when the parsed index is
\* in range, 400 otherwise
DeleteRule ==
    /\ ruleLeft > 0
    /\ ruleLeft' = ruleLeft - 1
    /\ \E param \in IndexParams \cup {IndexString(n) : n \in 0..(Len(config) - 1)} :
          LET index == ParseInt(param)
          IN  IF ValidIndex(index, Len(config))
              THEN /\ config' = Splice(config, index.value)
                   /\ lastDelete' = [param |-> param, index |-> index.value,
                                      done |-> TRUE]
                   /\ \E writeFails \in BOOLEAN :
                         configFile' = IF writeFails THEN configFile ELSE config'
              ELSE /\ config' = config
                   /\ configFile' = configFile
                   /\ lastDelete' = [param |-> param, index |-> -1, done |-> FALSE]
    /\ lastPost' = [lastPost EXCEPT !.fresh = FALSE]
    /\ UNCHANGED <<handlers, files, cleanups, now, inbox, msgLeft>>
    /\ UNCHANGED lifeVars

(***************************************************************************)
(* Specifications.                                                         *)
(***************************************************************************)
\* the state after the script has run to its last line: initializeClient()
\* was called (line 352) and waits for client.initialize()
InitBoot ==
    /\ currentStatus = "Initializing..."
    /\ availableGroups = <<>>
    /\ isReconnecting = FALSE
    /\ clientInfo = FALSE
    /\ initializing = 1
    /\ repairing = 0
    /\ cleanupTimers = 0
    /\ restartTimers = [o \in CleanupOutcomes |-> 0]
    /\ retryTimers = 0
    /\ reinitTimers = 0
    /\ destroying = 0
    /\ qrRendering = 0
    /\ authDir \in BOOLEAN
    /\ cacheDir \in BOOLEAN
    /\ loops = <<>>
    /\ refreshing = 0
    /\ lastInit = [cause |-> "boot", cleanup |-> NoCleanup, failedSince |-> FALSE]
    /\ lastRefresh = [at |-> "none", fetched |-> FALSE, response |-> "none"]

\* no message arrives
RelayIdle ==
    /\ config = <<>>
    /\ handlers = <<>>
    /\ files = {}
    /\ cleanups = EmptyBag
    /\ now = 0
    /\ inbox = {}
    /\ msgLeft = 0
    /\ ApiIdle

\* Spec: the session lifecycle alone.  The fetch loops and the refresh
\* endpoint write only availableGroups, loops and lastRefresh, which no
\* lifecycle action reads, so they stay suspended here.
Init ==
    /\ InitBoot
    /\ RelayIdle
    /\ evLeft = MaxEvents
    /\ fetchLeft = 0
    /\ refreshLeft = 0
    /\ script = <<>>

Next ==
    \/ Ready
    \/ Disconnected
    \/ DisconnectDestroyDone
    \/ ReinitTimerFires
    \/ Qr
    \/ QrRendered
    \/ Authenticated
    \/ AuthFailure
    \/ InitializeResolves
    \/ InitializeThrows
    \/ RepairDestroyDone
    \/ CleanupTimerFires
    \/ RestartTimerFires
    \/ RetryTimerFires

Spec == Init /\ [][Next]_vars

\* SpecLive: the lifecycle with every scheduled timer firing: the event loop
\* runs the callback of a setTimeout once its delay has passed.  The engine's
\* events and the settling of the awaited engine calls (client.initialize(),
\* client.destroy(), no timeout on either) stay free.
TimersFire ==
    /\ WF_vars(CleanupTimerFires)
    /\ WF_vars(RestartTimerFires)
    /\ WF_vars(RetryTimerFires)
    /\ WF_vars(ReinitTimerFires)

SpecLive == Init /\ [][Next]_vars /\ TimersFire

\* SpecRefresh: the lifecycle with the refresh endpoint.
InitRefresh ==
    /\ InitBoot
    /\ RelayIdle
    /\ evLeft = RefreshEvents
    /\ fetchLeft = 0
    /\ refreshLeft = MaxRefreshes
    /\ script = <<>>

NextRefresh ==
    \/ Next
    \/ RefreshRequest
    \/ RefreshComplete

SpecRefresh == InitRefresh /\ [][NextRefresh]_vars

\* SpecLoop: one 'ready' event and its fetch loop run to the end.
InitLoop ==
    /\ InitBoot
    /\ RelayIdle
    /\ evLeft = 0
    /\ fetchLeft = LoopFetches
    /\ refreshLeft = 0
    /\ script = <<"ready">>

NextLoop ==
    \/ InitializeResolves
    \/ Ready
    \/ \E l \in 1..Len(loops) : FetchComplete(l)
    \/ \E l \in 1..Len(loops) : FetchTimerFires(l)

SpecLoop == InitLoop /\ [][NextLoop]_vars

\* SpecScript: the lifecycle events qr, disconnected, qr, ready in this order,
\* with every timer and every awaited call completing at any point.
InitScript ==
    /\ InitBoot
    /\ RelayIdle
    /\ evLeft = 0
    /\ fetchLeft = MaxFetches
    /\ refreshLeft = 0
    /\ script = <<"qr", "disconnected", "qr", "ready">>

NextScript ==
    \/ InitializeResolves
    \/ InitializeThrows
    \/ RepairDestroyDone
    \/ CleanupTimerFires
    \/ RestartTimerFires
    \/ RetryTimerFires
    \/ ReinitTimerFires
    \/ Qr
    \/ QrRendered
    \/ Ready
    \/ Disconnected
    \/ DisconnectDestroyDone
    \/ \E l \in 1..Len(loops) : FetchComplete(l)
    \/ \E l \in 1..Len(loops) : FetchTimerFires(l)

SpecScript == InitScript /\ [][NextScript]_vars

\* SpecReconnect: the session connects, disconnects and connects again,
\* with the fetch loops of both 'ready' handlers.
InitReconnect ==
    /\ InitBoot
    /\ RelayIdle
    /\ evLeft = 0
    /\ fetchLeft = ReconnectFetches
    /\ refreshLeft = 0
    /\ script = <<"ready", "disconnected", "ready">>

NextReconnect ==
    \/ InitializeResolves
    \/ Ready
    \/ Disconnected
    \/ DisconnectDestroyDone
    \/ ReinitTimerFires
    \/ \E l \in 1..Len(loops) : FetchComplete(l)
    \/ \E l \in 1..Len(loops) : FetchTimerFires(l)

SpecReconnect == InitReconnect /\ [][NextReconnect]_vars

\* SpecRelay: messages through the relay pipeline; the session is idle.
SessionIdle ==
    /\ InitBoot
    /\ authDir = TRUE
    /\ cacheDir = TRUE
    /\ evLeft = 0
    /\ fetchLeft = 0
    /\ refreshLeft = 0
    /\ script = <<>>

InitRelay ==
    /\ SessionIdle
    /\ config \in RoutingTables
    /\ handlers = <<>>
    /\ files = {}
    /\ cleanups = EmptyBag
    /\ now = 0
    /\ inbox = RelayMessages
    /\ msgLeft = MaxMsgs
    /\ ApiIdle

NextRelay ==
    \/ MessageCreate
    \/ \E i \in 1..Len(handlers) : GetChatDone(i)
    \/ \E i \in 1..Len(handlers) : DownloadDone(i)
    \/ \E i \in 1..Len(handlers) : SendDone(i)
    \/ \E i \in 1..Len(handlers) : ForwardDone(i)
    \/ CleanupFires
    \/ Tick

SpecRelay == InitRelay /\ [][NextRelay]_vars

\* SpecFiles: images that arrive in A close together, each relayed to B.
InitFiles ==
    /\ SessionIdle
    /\ config = <<Rule(GroupA, <<GroupB>>)>>
    /\ handlers = <<>>
    /\ files = {}
    /\ cleanups = EmptyBag
    /\ now = 0
    /\ inbox = {[chat |-> GroupA, type |-> "image", mime |-> MimePng,
                  hasMedia |-> TRUE]}
    /\ msgLeft = MaxWriters
    /\ ApiIdle

SpecFiles == InitFiles /\ [][NextRelay]_vars

\* SpecClassify: every message up to its classification.
InitClassify ==
    /\ SessionIdle
    /\ config \in RoutingTables
    /\ handlers = <<>>
    /\ files = {}
    /\ cleanups = EmptyBag
    /\ now = 0
    /\ inbox = Messages
    /\ msgLeft = MaxMsgs
    /\ ApiIdle

NextClassify ==
    \/ MessageCreate
    \/ \E i \in 1..Len(handlers) : GetChatDone(i)

SpecClassify == InitClassify /\ [][NextClassify]_vars

\* SpecRules: the rule endpoints on every routing table; no message arrives.
InitRules ==
    /\ SessionIdle
    /\ config \in RoutingTables
    /\ handlers = <<>>
    /\ files = {}
    /\ cleanups = EmptyBag
    /\ now = 0
    /\ inbox = {}
    /\ msgLeft = 0
    /\ configFile = config
    /\ lastPost = NoPost
    /\ lastDelete = NoDelete
    /\ ruleLeft = MaxRuleOps

NextRules ==
    \/ PostRule
    \/ DeleteRule

SpecRules == InitRules /\ [][NextRules]_vars

(***************************************************************************)
(* Properties.                                                             *)
(***************************************************************************)
Handlers == {handlers[i] : i \in 1..Len(handlers)}
Entries(h) == {h.log[k] : k \in 1..Len(h.log)}
InTarget(h) == h.pc \in {"download", "send", "forward"}

\* iterations of handler h for target t that have ended
AttemptsFor(h, t) == Cardinality({k \in 1..Len(h.log) : h.log[k].target = t})
\* iterations of handler h for target t that have begun
StartedFor(h, t) ==
    AttemptsFor(h, t) + (IF InTarget(h) /\ TargetOf(h) = t THEN 1 ELSE 0)

\* C1: with the rule {source: A, targets: [B, C]}, a media message seen in A
\* gets exactly one delivery attempt for B and exactly one for C, whatever
\* the attempt for B did (also when its re-upload and its forward both threw).
C1_OneAttemptPerTarget ==
    \A h \in Handlers :
        (h.outcome = "relayed" /\ h.rules = <<Rule(GroupA, <<GroupB, GroupC>>)>>) =>
            /\ StartedFor(h, GroupB) <= 1
            /\ StartedFor(h, GroupC) <= 1
            /\ h.pc = "done" =>
                  /\ Len(h.log) = 2
                  /\ AttemptsFor(h, GroupB) = 1
                  /\ AttemptsFor(h, GroupC) = 1

\* the attempt for B failed in both stages and the attempt for C was made
C1_Witness ==
    \E h \in Handlers :
        /\ h.pc = "done"
        /\ h.rules = <<Rule(GroupA, <<GroupB, GroupC>>)>>
        /\ Len(h.log) = 2
        /\ h.log[1].target = GroupB
        /\ h.log[1].native = "threw"
        /\ h.log[1].forward = "threw"
        /\ h.log[2].target = GroupC

\* C2: every temporary file written by a native re-upload attempt has its
\* deletion scheduled, whatever the attempt's outcome (sent, send threw,
\* file empty).
C2_CleanupAlwaysScheduled ==
    \A h \in Handlers : \A e \in Entries(h) :
        e.file # NoFile => e.cleanup

\* C3: when the downloaded payload is absent or empty, or the file written
\* from it has size zero, the iteration sends nothing natively and attempts
\* the forward for the same target.
C3_EmptyPayloadFallsBack ==
    \A h \in Handlers :
        /\ \A e \in Entries(h) :
              e.got = "nothing" =>
                  /\ ~e.sendCalled
                  /\ e.native # "sent"
                  /\ e.forward \in {"ok", "threw"}
        /\ (InTarget(h) /\ h.got = "nothing") =>
              /\ ~h.sendCalled
              /\ h.pc = "forward"

\* a file of zero bytes was written and the forward delivered the message
C3_Witness ==
    \E h \in Handlers : \E e \in Entries(h) :
        /\ e.got = "nothing"
        /\ e.native = "empty"
        /\ e.file # NoFile
        /\ ~e.sendCalled
        /\ e.forward = "ok"

\* C4: no parallel disconnect recoveries: never two disconnect-triggered
\* re-initializations pending at once, and a 'disconnected' event that
\* arrives while a disconnect-triggered recovery is pending neither destroys
\* the engine again nor schedules another re-initialization.
RecoveryPending == reinitTimers > 0
C4_SingleFlightRecovery ==
    /\ [](reinitTimers <= 1)
    /\ [][(Disconnected /\ RecoveryPending) =>
             (destroying' = destroying /\ reinitTimers' = reinitTimers)]_vars

\* C5: after qr, disconnected, qr, ready (all their handlers run, the
\* disconnect's timer fired at whatever point) the status is 'Connected'
\* and exactly one automatic refresh loop is active.
ActiveLoops == {l \in 1..Len(loops) : loops[l].phase # "done"}
ScriptHandled ==
    script = <<>> /\ qrRendering = 0 /\ destroying = 0 /\ reinitTimers = 0
C5_ConnectedAfterScript ==
    ScriptHandled =>
        /\ currentStatus = "Connected"
        /\ Cardinality(ActiveLoops) = 1

\* C6: an initialization that follows a corruption error starts only after
\* the deletion of both session directories was attempted.
C6_BothDeletionsAttempted ==
    lastInit.cause = "restart" =>
        /\ lastInit.cleanup.authTried
        /\ lastInit.cleanup.cacheTried

\* C7: in one loop, once an attempt has found groups and published them, at
\* most one confirmatory re-check is scheduled and the loop makes at most 5
\* attempts in total.
HasFound(loop) == loop.last = "found" \/ loop.rechecks > 0
C7_OneRecheckFiveAttempts ==
    \A l \in 1..Len(loops) :
        HasFound(loops[l]) =>
            /\ loops[l].rechecks <= 1
            /\ loops[l].attempts <= RecheckLimit

\* C8: every loop makes at most 20 fetch attempts, every fetch (failed ones
\* too) counts as one attempt, and once 20 are used no further fetch is
\* scheduled.
C8_LoopBudget ==
    \A l \in 1..Len(loops) :
        /\ loops[l].attempts = loops[l].calls
        /\ loops[l].calls <= RetryLimit
        /\ loops[l].phase = "waiting" => loops[l].calls < RetryLimit

\* the twentieth fetch failed and the loop has ended
C8_Witness ==
    \E l \in 1..Len(loops) :
        /\ loops[l].calls = RetryLimit
        /\ loops[l].last = "error"
        /\ loops[l].phase = "done"

\* C9: a refresh requested while the session is not Connected fetches
\* nothing and answers 'not ready'.
C9_RefreshOnlyWhenConnected ==
    (lastRefresh.at # "none" /\ lastRefresh.at # "Connected") =>
        /\ ~lastRefresh.fetched
        /\ lastRefresh.response = "not ready"

\* C10: a message in a matched source group is classified as media exactly
\* when its type is image, video or gif, or its type is document and its
\* MIME type begins with image/ or video/ (document + image/png is media,
\* document + application/pdf is not).
BeginsWithImageOrVideo(mime) ==
    /\ Len(mime) >= 2
    /\ mime[1] \in {"image", "video"}
    /\ mime[2] = "/"

C10_Classification ==
    \A h \in Handlers :
        h.outcome \in {"relayed", "skipped"} =>
            /\ h.outcome = "relayed" <=>
                  \/ h.type \in {"image", "video", "gif"}
                  \/ h.type = "document" /\ BeginsWithImageOrVideo(h.mime)
            /\ (h.type = "document" /\ h.mime = MimePng) => h.outcome = "relayed"
            /\ (h.type = "document" /\ h.mime = MimePdf) => h.outcome = "skipped"

\* a document with MIME image/png was classified as media
C10_Witness ==
    \E h \in Handlers :
        /\ h.type = "document"
        /\ h.mime = MimePng
        /\ h.outcome = "relayed"
        /\ h.isMedia

\* C11: every non-media message seen in a group that is the source of a rule
\* is discarded with no delivery attempt and with a skip notice that names
\* its declared type, plain text (type 'chat') included.
C11_SkipNoticeNamesType ==
    \A h \in Handlers :
        h.outcome = "skipped" =>
            /\ h.log = <<>>
            /\ h.pc = "done"
            /\ h.notice = h.type

\* C12: a message that matches N rules whose targets together form M
\* distinct groups triggers at most M delivery attempts, also when one
\* target group is listed by more than one of the matching rules.
DistinctTargets(rules) ==
    UNION {{rules[i].targets[j] : j \in 1..Len(rules[i].targets)} : i \in 1..Len(rules)}
DeliveryAttempts(h) == Len(h.log) + (IF InTarget(h) THEN 1 ELSE 0)
C12_AtMostOnePerDistinctTarget ==
    \A h \in Handlers :
        h.outcome = "relayed" =>
            DeliveryAttempts(h) <= Cardinality(DistinctTargets(h.rules))

\* C13: when the timer of a disconnect-triggered re-initialization fires
\* after the session has reached Connected, nothing observable happens: the
\* status stays 'Connected'.
C13_StaleReinitIsNoOp ==
    [][(ReinitTimerFires /\ currentStatus = "Connected") =>
          currentStatus' = "Connected"]_vars

\* the recovery of a failed initialization that is under way: the auto-fix
\* suspended at await client.destroy(), its 1s and 3s timers, the 5s timer
RestartCount == restartTimers[[authTried |-> TRUE, cacheTried |-> TRUE, failed |-> FALSE]]
                + restartTimers[[authTried |-> TRUE, cacheTried |-> TRUE, failed |-> TRUE]]
                + restartTimers[[authTried |-> TRUE, cacheTried |-> FALSE, failed |-> FALSE]]
                + restartTimers[[authTried |-> TRUE, cacheTried |-> FALSE, failed |-> TRUE]]
RetryUnderWay == repairing + cleanupTimers + RestartCount + retryTimers

\* C14: scheduled timers firing, every initialization attempt that throws,
\* with a corruption signature or with any other error, is eventually
\* followed by another initialization attempt: no failed initialization is
\* left without one.
C14_FailedInitRetried ==
    lastInit.failedSince ~> ~lastInit.failedSince

\* C15: on an 'auth_failure' event the status becomes 'Auth Failure' and the
\* handler itself destroys nothing, starts no initialization and schedules
\* none: what is running or scheduled is what was before the event.
RecoverySteps ==
    <<initializing, repairing, cleanupTimers, restartTimers, retryTimers,
      reinitTimers, destroying, isReconnecting>>
C15_AuthFailureNoRetry ==
    [][AuthFailure =>
          (currentStatus' = "Auth Failure" /\ RecoverySteps' = RecoverySteps)]_vars

\* the session is in 'Auth Failure' with nothing running and nothing scheduled
C15_Witness ==
    /\ currentStatus = "Auth Failure"
    /\ initializing = 0
    /\ RetryUnderWay = 0
    /\ reinitTimers = 0
    /\ destroying = 0

\* C16: appending a rule and then deleting at the index the appended rule
\* received restores the table to its content before the append, for every
\* table and every rule.
C16_AppendDeleteRoundTrip ==
    [][(DeleteRule /\ lastPost.fresh
          /\ lastDelete'.param = IndexString(lastPost.index)) =>
             (lastDelete'.done /\ config' = lastPost.before)]_vars

\* a rule was appended to a table of three rules and deleted again at the
\* index it had received
C16_Witness ==
    /\ ~lastPost.fresh
    /\ Len(lastPost.before) = 3
    /\ lastDelete.done
    /\ lastDelete.param = IndexString(lastPost.index)
    /\ config = lastPost.before

\* C17: in every target iteration the stages run in order and stop at the
\* first success: msg.forward() is called exactly when the native re-upload
\* did not complete a successful send, so no iteration has both a
\* successful native send and a forward.
C17_ForwardIffNativeFailed ==
    \A h \in Handlers :
        /\ \A e \in Entries(h) :
              /\ e.native = "sent" <=> e.forward = "none"
              /\ e.native = "sent" => e.sendCalled
        /\ h.pc = "forward" => h.native # "sent"
        /\ h.pc \in {"download", "send"} => h.native = "none"

\* one message: the send to B threw and B got the forward, the send to C
\* succeeded and C got no forward
C17_Witness ==
    \E h \in Handlers :
        /\ Len(h.log) = 2
        /\ h.log[1].native = "threw"
        /\ h.log[1].sendCalled
        /\ h.log[1].forward = "ok"
        /\ h.log[2].native = "sent"
        /\ h.log[2].forward = "none"

\* C18: no message is delivered, by native send or by forward, to the group
\* it was observed in, whatever the routing table (also one with a rule
\* that lists its own source as a target).
C18_NeverBackToSource ==
    \A h \in Handlers :
        /\ \A e \in Entries(h) : e.target # h.chat
        /\ InTarget(h) => TargetOf(h) # h.chat

\* a message seen in A under the rule {source: A, targets: [A, B]} was
\* delivered to B alone
C18_Witness ==
    \E h \in Handlers :
        /\ h.pc = "done"
        /\ h.chat = GroupA
        /\ h.rules = <<Rule(GroupA, <<GroupA, GroupB>>)>>
        /\ Len(h.log) = 1
        /\ h.log[1].target = GroupB
        /\ (h.log[1].native = "sent" \/ h.log[1].forward = "ok")

\* C19: two delivery attempts (of two messages, or of two targets of one
\* message) never write the same temporary file path, so the cleanup timer
\* of one attempt never deletes a file another attempt wrote.
FileWrites ==
    UNION {{<<i, k, handlers[i].log[k].file>> : k \in 1..Len(handlers[i].log)}
              \cup (IF InTarget(handlers[i])
                     THEN {<<i, 0, handlers[i].file>>} ELSE {})
           : i \in 1..Len(handlers)}
C19_TempFilesNeverShared ==
    \A w1 \in FileWrites : \A w2 \in FileWrites :
        (w1 # w2 /\ w1[3] # NoFile) => w1[3] # w2[3]

\* C20: the session is never in 'Disconnected' with no initialization
\* running or scheduled: after every 'disconnected' event, in whatever state
\* it arrives, a re-initialization is under way.
InitializationUnderWay ==
    \/ initializing > 0
    \/ destroying > 0
    \/ reinitTimers > 0
    \/ RetryUnderWay > 0
C20_DisconnectAlwaysRecovers ==
    currentStatus = "Disconnected" => InitializationUnderWay

\* C21: over all recovery paths together (the re-initialization after a
\* disconnect, the 5s retry after an initialization error, the restart
\* after the auto-fix) at most one initialization is running or scheduled
\* at any time.
InitializationsScheduled == RestartCount + retryTimers + reinitTimers
C21_OneInitializationAtATime ==
    initializing + InitializationsScheduled <= 1

\* C22: over any sequence of ready and disconnected events at most one
\* automatic refresh loop is active at a time, and a loop started by a
\* ready event starts no further fetch once the session has left Connected.
C22_OneLoopOnlyWhileConnected ==
    /\ [](Cardinality(ActiveLoops) <= 1)
    /\ [][(\E l \in 1..Len(loops) : FetchTimerFires(l)) =>
             currentStatus = "Connected"]_vars

====
